---- MODULE Spec2Model ----
(***************************************************************************)
(* Narrava, the transcript combiner: the merge engine (sort, windowed      *)
(* near-duplicate removal, adjacent Speaker merge), the text normalizer,   *)
(* the store-only ZIP writer and the combine handler that pairs uploads.   *)
(*                                                                         *)
(* Text is a sequence of UTF-16 code units (naturals), as a JS string is.  *)
(* An entry is a record [startMs, role, text]; role is the label string.   *)
(***************************************************************************)
EXTENDS Integers, Sequences, FiniteSets, TLC

VARIABLES
  \* combineTranscripts: the merge engine
  pc,           \* position in combineTranscripts
  combined,     \* [...spoken, ...desc], sorted in place
  result,       \* dedupeNearDuplicates: the accumulator
  dedupeI,      \* dedupeNearDuplicates: candidates processed so far (loop index i)
  isDuplicate,  \* dedupeNearDuplicates: the flag after the last inner scan
  dedupeJ,      \* dedupeNearDuplicates: where the last inner scan stopped (0: ran out)
  merged,       \* mergeAdjacentSpeakers: the accumulator
  mergeK,       \* mergeAdjacentSpeakers: items consumed so far
  output,       \* the rendered transcript
  \* cleanSrtText applied twice
  normPc,       \* "idle", "input", "once", "twice"
  normInput,    \* the text x
  normOnce,     \* cleanSrtText(x)
  normTwice,    \* cleanSrtText(cleanSrtText(x))
  \* buildZip and its ZipWriter
  zipPc,            \* "idle", "adding", "done"
  zipFiles,         \* buildZip's argument: [{ name, content }]
  zipK,             \* files added so far
  offset,           \* ZipWriter.offset
  chunks,           \* ZipWriter.chunks
  centralDirectory, \* ZipWriter.centralDirectory: [{ header, nameBytes }]
  zipResult,        \* the bytes toUint8Array returned
  \* the page and the combine click handler
  spokenInput,      \* spokenInput.files: [{ name, content }]
  descInput,        \* descInput.files
  combineDisabled,  \* combineBtn.disabled
  orchPc,           \* "idle", "readSpoken", "readDesc", "zip": where the handler is
  spokenFiles,      \* the handler's spokenFiles
  descFiles,        \* the handler's descFiles
  spokenEntries,    \* results of the spoken reads, by index; pending ones are Pending
  descEntries,      \* results of the descriptive reads
  outputs,          \* the handler's outputs
  zipArg,           \* what buildZip was called with in this run (<<>>: not called)
  statusText,       \* statusText.textContent
  downloadDisabled, \* downloadBtn.disabled
  downloadHref,     \* the payload behind downloadLink.href, or NoHref
  downloadName,     \* downloadLink.download
  downloadText,     \* downloadBtn.textContent
  \* parseSrtToBlocks, one step per iteration of the scan loop
  parsePc,          \* "idle", "call", "loop", "done", "raised"
  parseSrt,         \* the argument srtString
  parseLines,       \* lines
  parseI,           \* the line cursor i, counted from 1
  parseBlocks,      \* blocks
  parseIter         \* passes through the body of the scan loop so far

mergeVars == <<pc, combined, result, dedupeI, isDuplicate, dedupeJ, merged, mergeK, output>>
normVars == <<normPc, normInput, normOnce, normTwice>>
zipVars == <<zipPc, zipFiles, zipK, offset, chunks, centralDirectory, zipResult>>

orchVars ==
  <<spokenInput, descInput, combineDisabled, orchPc, spokenFiles, descFiles,
    spokenEntries, descEntries, outputs, zipArg, statusText, downloadDisabled,
    downloadHref, downloadName, downloadText>>

parseVars == <<parsePc, parseSrt, parseLines, parseI, parseBlocks, parseIter>>

vars == <<mergeVars, normVars, zipVars, orchVars, parseVars>>

----------------------------------------------------------------------------
(* Bounds of the model *)

\* entries handed to the merge engine (both tracks together)
MaxItems == 3

\* length of the text handed to cleanSrtText
MaxTextLen == 5

\* files handed to buildZip
MaxFiles == 2

\* files selected in each of the two file inputs
MaxInputs == 2

----------------------------------------------------------------------------
(* Characters and strings *)

\* JS \s (WhiteSpace and LineTerminator code units)
IsWs(c) ==
  \/ c \in {9, 10, 11, 12, 13, 32, 160, 5760, 8232, 8233, 8239, 8287, 12288, 65279}
  \/ c \in 8192..8202

IsLineTerminator(c) == c \in {10, 13, 8232, 8233}

IsDigit(c) == c \in 48..57

IsAsciiLetter(c) == c \in 65..90 \/ c \in 97..122

\* String.prototype.toLowerCase on one code unit (exact below 128, and for
\* every code unit whose lower case is itself)
LowerChar(c) == IF c \in 65..90 THEN c + 32 ELSE c

toLowerCase(s) == [n \in 1..Len(s) |-> LowerChar(s[n])]

\* does the literal lit occur in s at position p
MatchLit(s, p, lit) ==
  /\ p + Len(lit) - 1 <= Len(s)
  /\ \A n \in 1..Len(lit) : s[p + n - 1] = lit[n]

\* the same, ignoring ASCII case (a regex's i flag without the u flag)
MatchLitCI(s, p, lit) ==
  /\ p + Len(lit) - 1 <= Len(s)
  /\ \A n \in 1..Len(lit) : LowerChar(s[p + n - 1]) = LowerChar(lit[n])

\* \s* from position p: the first position at or after p that is not whitespace
RECURSIVE SkipWs(_, _)
SkipWs(s, p) == IF p <= Len(s) /\ IsWs(s[p]) THEN SkipWs(s, p + 1) ELSE p

\* String.prototype.trim
RECURSIVE TrimEnd(_)
TrimEnd(s) ==
  IF Len(s) > 0 /\ IsWs(s[Len(s)]) THEN TrimEnd(SubSeq(s, 1, Len(s) - 1)) ELSE s

Trim(s) == TrimEnd(SubSeq(s, SkipWs(s, 1), Len(s)))

\* replace(/\s+/g, " ")
RECURSIVE CollapseWsFrom(_, _)
CollapseWsFrom(s, p) ==
  IF p > Len(s) THEN <<>>
  ELSE IF IsWs(s[p]) THEN <<32>> \o CollapseWsFrom(s, SkipWs(s, p))
  ELSE <<s[p]>> \o CollapseWsFrom(s, p + 1)

CollapseWs(s) == CollapseWsFrom(s, 1)

\* Array.prototype.join
RECURSIVE Join(_, _)
Join(parts, sep) ==
  IF Len(parts) = 0 THEN <<>>
  ELSE IF Len(parts) = 1 THEN parts[1]
  ELSE parts[1] \o sep \o Join(Tail(parts), sep)

SeqsOfLen(S, n) == [1..n -> S]

----------------------------------------------------------------------------
(* cleanSrtText *)

\* the first position at or after p that holds c, or 0
RECURSIVE FindChar(_, _, _)
FindChar(s, p, c) ==
  IF p > Len(s) THEN 0 ELSE IF s[p] = c THEN p ELSE FindChar(s, p + 1, c)

\* /<[^>]+>/ at position p: the position after the match, or 0.  [^>]+ takes
\* every code unit up to the next ">", and needs at least one
MatchTag(s, p) ==
  IF s[p] # 60 THEN 0
  ELSE LET q == FindChar(s, p + 1, 62)
       IN IF q > p + 1 THEN q + 1 ELSE 0

\* replace(/<[^>]+>/g, "")
RECURSIVE RemoveTagsFrom(_, _)
RemoveTagsFrom(s, p) ==
  IF p > Len(s) THEN <<>>
  ELSE LET e == MatchTag(s, p)
       IN IF e > 0 THEN RemoveTagsFrom(s, e) ELSE <<s[p]>> \o RemoveTagsFrom(s, p + 1)

RemoveTags(s) == RemoveTagsFrom(s, 1)

\* /\{[^}]*\}/ at position p
MatchBrace(s, p) ==
  IF s[p] # 123 THEN 0
  ELSE LET q == FindChar(s, p + 1, 125)
       IN IF q > 0 THEN q + 1 ELSE 0

\* replace(/\{[^}]*\}/g, "")
RECURSIVE RemoveBracesFrom(_, _)
RemoveBracesFrom(s, p) ==
  IF p > Len(s) THEN <<>>
  ELSE LET e == MatchBrace(s, p)
       IN IF e > 0 THEN RemoveBracesFrom(s, e) ELSE <<s[p]>> \o RemoveBracesFrom(s, p + 1)

\* the same without the g flag: the first match only
RECURSIVE RemoveFirstBraceFrom(_, _)
RemoveFirstBraceFrom(s, p) ==
  IF p > Len(s) THEN <<>>
  ELSE LET e == MatchBrace(s, p)
       IN IF e > 0 THEN SubSeq(s, e, Len(s)) ELSE <<s[p]>> \o RemoveFirstBraceFrom(s, p + 1)

RemoveBracesFirstOnly(s) == RemoveFirstBraceFrom(s, 1)
RemoveBraces(s) == RemoveBracesFrom(s, 1)

\* replace(/\u200B/g, "")
RemoveZeroWidth(s) == SelectSeq(s, LAMBDA c : c # 8203)

\* the last index of the whitespace run that holds position p
RECURSIVE WsRunEnd(_, _)
WsRunEnd(s, p) == IF p < Len(s) /\ IsWs(s[p + 1]) THEN WsRunEnd(s, p + 1) ELSE p

\* $ with the m flag: the end of the input or just before a line terminator
AtLineEnd(s, p) == p > Len(s) \/ IsLineTerminator(s[p])

\* /\s+$/m at position p: \s+ is greedy and backs off until $ holds; the
\* position after the match, or 0
RECURSIVE BackOffToLineEnd(_, _, _)
BackOffToLineEnd(s, p, e) ==
  IF e < p THEN 0
  ELSE IF AtLineEnd(s, e + 1) THEN e + 1
  ELSE BackOffToLineEnd(s, p, e - 1)

MatchTrailingWs(s, p) ==
  IF ~IsWs(s[p]) THEN 0 ELSE BackOffToLineEnd(s, p, WsRunEnd(s, p))

\* replace(/\s+$/gm, "")
RECURSIVE StripTrailingWsFrom(_, _)
StripTrailingWsFrom(s, p) ==
  IF p > Len(s) THEN <<>>
  ELSE LET e == MatchTrailingWs(s, p)
       IN IF e > 0 THEN StripTrailingWsFrom(s, e)
          ELSE <<s[p]>> \o StripTrailingWsFrom(s, p + 1)

StripTrailingWs(s) == StripTrailingWsFrom(s, 1)

IsTabLike(c) == c \in {9, 12, 11}

\* replace(/[\t\f\v]+/g, " ")
RECURSIVE CollapseTabsFrom(_, _)
CollapseTabsFrom(s, p) ==
  IF p > Len(s) THEN <<>>
  ELSE IF IsTabLike(s[p])
       THEN IF p > 1 /\ IsTabLike(s[p - 1]) THEN CollapseTabsFrom(s, p + 1)
            ELSE <<32>> \o CollapseTabsFrom(s, p + 1)
  ELSE <<s[p]>> \o CollapseTabsFrom(s, p + 1)

CollapseTabs(s) == CollapseTabsFrom(s, 1)

\* replace(/\n{2,}/g, "\n")
RECURSIVE CollapseNewlinesFrom(_, _)
CollapseNewlinesFrom(s, p) ==
  IF p > Len(s) THEN <<>>
  ELSE IF s[p] = 10 /\ p > 1 /\ s[p - 1] = 10 THEN CollapseNewlinesFrom(s, p + 1)
  ELSE <<s[p]>> \o CollapseNewlinesFrom(s, p + 1)

CollapseNewlines(s) == CollapseNewlinesFrom(s, 1)

cleanSrtText(s) ==
  Trim(CollapseNewlines(CollapseTabs(StripTrailingWs(RemoveZeroWidth(
    RemoveBraces(RemoveTags(s)))))))

----------------------------------------------------------------------------
(* normalizeForCompare *)

LitOn == <<111, 110>>                           \* "on"
LitScreen == <<115, 99, 114, 101, 101, 110>>    \* "screen"
LitText == <<116, 101, 120, 116>>               \* "text"

\* /on[-\s]?screen\s*text\s*:\s*/i at position p: the position after the match,
\* or 0 when there is no match at p
MatchMarker(s, p) ==
  IF ~MatchLitCI(s, p, LitOn) THEN 0
  ELSE LET p1 == p + 2
           p2 == IF p1 <= Len(s) /\ (s[p1] = 45 \/ IsWs(s[p1])) THEN p1 + 1 ELSE p1
       IN IF ~MatchLitCI(s, p2, LitScreen) THEN 0
          ELSE LET p3 == SkipWs(s, p2 + 6)
               IN IF ~MatchLitCI(s, p3, LitText) THEN 0
                  ELSE LET p4 == SkipWs(s, p3 + 4)
                       IN IF p4 <= Len(s) /\ s[p4] = 58
                          THEN SkipWs(s, p4 + 1)
                          ELSE 0

\* replace(/on[-\s]?screen\s*text\s*:\s*/gi, "")
RECURSIVE StripMarkersFrom(_, _)
StripMarkersFrom(s, p) ==
  IF p > Len(s) THEN <<>>
  ELSE LET e == MatchMarker(s, p)
       IN IF e > 0 THEN StripMarkersFrom(s, e)
          ELSE <<s[p]>> \o StripMarkersFrom(s, p + 1)

\* replace(/[^a-z0-9]+/g, "")
KeepLowerAlnum(s) == SelectSeq(s, LAMBDA c : c \in 97..122 \/ IsDigit(c))

normalizeForCompare(s) == Trim(KeepLowerAlnum(StripMarkersFrom(toLowerCase(s), 1)))

----------------------------------------------------------------------------
(* The merge engine *)

windowMs == 750

momentOrderValue(role) ==
  CASE role = "Description" -> 0
    [] role = "On-screen text" -> 1
    [] role = "Speaker" -> 2
    [] OTHER -> 3

\* the comparator handed to sort
CompareEntries(a, b) ==
  IF a.startMs # b.startMs THEN a.startMs - b.startMs
  ELSE momentOrderValue(a.role) - momentOrderValue(b.role)

\* Array.prototype.sort is stable: an element goes after every element that
\* does not compare greater than it
RECURSIVE InsertSorted(_, _)
InsertSorted(sorted, e) ==
  IF Len(sorted) = 0 THEN <<e>>
  ELSE IF CompareEntries(sorted[Len(sorted)], e) <= 0 THEN Append(sorted, e)
  ELSE Append(InsertSorted(SubSeq(sorted, 1, Len(sorted) - 1), e), sorted[Len(sorted)])

RECURSIVE SortEntries(_)
SortEntries(items) ==
  IF Len(items) = 0 THEN <<>>
  ELSE InsertSorted(SortEntries(SubSeq(items, 1, Len(items) - 1)), items[Len(items)])

\* the early exit of the backward scan
WindowExceededGE(current, prev, w) == current.startMs - prev.startMs >= w
WindowExceeded(current, prev, w) == current.startMs - prev.startMs > w

\* the role upgrade on a collision
PreferSpeakerNever(prev, current) == FALSE
PreferSpeaker(prev, current) == prev.role # "Speaker" /\ current.role = "Speaker"

\* the inner loop of dedupeNearDuplicates from index jj down: the flag, the
\* index it stopped at, and the accumulator it leaves
RECURSIVE DedupeScan(_, _, _, _)
DedupeScan(acc, current, jj, w) ==
  IF jj < 1 THEN [isDuplicate |-> FALSE, j |-> 0, result |-> acc]
  ELSE IF WindowExceeded(current, acc[jj], w)
       THEN [isDuplicate |-> FALSE, j |-> jj, result |-> acc]
  ELSE IF normalizeForCompare(acc[jj].text) = normalizeForCompare(current.text)
       THEN [isDuplicate |-> TRUE, j |-> jj,
             result |-> IF PreferSpeaker(acc[jj], current)
                        THEN [acc EXCEPT ![jj] = current]
                        ELSE acc]
  ELSE DedupeScan(acc, current, jj - 1, w)

\* one iteration of the outer loop
DedupeIter(acc, current, w) ==
  LET scan == DedupeScan(acc, current, Len(acc), w)
  IN IF scan.isDuplicate THEN scan.result ELSE Append(scan.result, current)

RECURSIVE DedupeFrom(_, _, _, _)
DedupeFrom(items, n, acc, w) ==
  IF n > Len(items) THEN acc
  ELSE DedupeFrom(items, n + 1, DedupeIter(acc, items[n], w), w)

dedupeNearDuplicates(items, w) == DedupeFrom(items, 1, <<>>, w)

\* one iteration of mergeAdjacentSpeakers
MergeIterPlainJoin(acc, item) ==
  IF Len(acc) > 0 /\ acc[Len(acc)].role = "Speaker" /\ item.role = "Speaker"
  THEN [acc EXCEPT ![Len(acc)].text = acc[Len(acc)].text \o <<32>> \o item.text]
  ELSE Append(acc, item)
MergeIter(acc, item) ==
  IF Len(acc) > 0 /\ acc[Len(acc)].role = "Speaker" /\ item.role = "Speaker"
  THEN [acc EXCEPT ![Len(acc)].text =
          Trim(CollapseWs(acc[Len(acc)].text \o <<32>> \o item.text))]
  ELSE Append(acc, item)

RECURSIVE MergeFrom(_, _, _)
MergeFrom(items, n, acc) ==
  IF n > Len(items) THEN acc
  ELSE MergeFrom(items, n + 1, MergeIter(acc, items[n]))

mergeAdjacentSpeakers(items) == MergeFrom(items, 1, <<>>)

\* the role label as text
RoleChars(role) ==
  CASE role = "Description" -> <<68, 101, 115, 99, 114, 105, 112, 116, 105, 111, 110>>
    [] role = "On-screen text" ->
         <<79, 110, 45, 115, 99, 114, 101, 101, 110, 32, 116, 101, 120, 116>>
    [] role = "Speaker" -> <<83, 112, 101, 97, 107, 101, 114>>

\* `${item.role}: ${item.text}` joined by a blank line
RenderEntries(items) ==
  Join([n \in 1..Len(items) |-> RoleChars(items[n].role) \o <<58, 32>> \o items[n].text],
       <<10, 10>>)

----------------------------------------------------------------------------
(* parseSrtToBlocks, the tagging of the two tracks, combineTranscripts *)

\* the concatenation of the parts, halving (the evaluation stays shallow on
\* whole files)
RECURSIVE Flatten(_)
Flatten(parts) ==
  IF Len(parts) = 0 THEN <<>>
  ELSE IF Len(parts) = 1 THEN parts[1]
  ELSE LET h == Len(parts) \div 2
       IN Flatten(SubSeq(parts, 1, h)) \o Flatten(SubSeq(parts, h + 1, Len(parts)))

\* replace(/\r\n/g, "\n").replace(/\r/g, "\n"): every CR becomes LF, and the LF
\* that followed a CR is gone
NormalizeNewlines(s) ==
  Flatten([n \in 1..Len(s) |->
             IF s[n] = 13 THEN <<10>>
             ELSE IF s[n] = 10 /\ n > 1 /\ s[n - 1] = 13 THEN <<>>
             ELSE <<s[n]>>])

\* split("\n"): one more part than there are line feeds; part k lies between
\* the (k-1)-th and the k-th line feed
SplitLines(s) ==
  LET feeds == {n \in 1..Len(s) : s[n] = 10}
      Feed(k) == IF k = 0 THEN 0
                 ELSE IF k > Cardinality(feeds) THEN Len(s) + 1
                 ELSE CHOOSE n \in feeds : Cardinality({m \in feeds : m < n}) = k - 1
  IN [k \in 1..(Cardinality(feeds) + 1) |-> SubSeq(s, Feed(k - 1) + 1, Feed(k) - 1)]

\* /^\d+$/.test(s)
IsIndexLine(s) == Len(s) > 0 /\ \A n \in 1..Len(s) : IsDigit(s[n])

\* \d{2}:\d{2}:\d{2},\d{3} at position p
MatchTimestamp(s, p) ==
  /\ p + 11 <= Len(s)
  /\ \A n \in {0, 1, 3, 4, 6, 7, 9, 10, 11} : IsDigit(s[p + n])
  /\ s[p + 2] = 58 /\ s[p + 5] = 58 /\ s[p + 8] = 44

\* timecodeRegex at position p
MatchTimecode(s, p) ==
  /\ MatchTimestamp(s, p)
  /\ LET arrow == SkipWs(s, p + 12)
     IN /\ MatchLit(s, arrow, <<45, 45, 62>>)
        /\ MatchTimestamp(s, SkipWs(s, arrow + 3))

\* timecodeRegex.exec: the leftmost position that matches, or 0
FindTimecode(s, p) ==
  LET found == {q \in p..Len(s) : MatchTimecode(s, q)}
  IN IF found = {} THEN 0 ELSE CHOOSE q \in found : \A r \in found : q <= r

\* parseInt(digits, 10) of the n digits at position p
RECURSIVE ParseDigits(_, _, _)
ParseDigits(s, p, n) ==
  IF n = 0 THEN 0 ELSE ParseDigits(s, p, n - 1) * 10 + (s[p + n - 1] - 48)

hhmmssToMs(h, m, sec, ms) == ((h * 60 + m) * 60 + sec) * 1000 + ms

\* while (i < lines.length && lines[i].trim() !== "") i++
RECURSIVE TextLinesEnd(_, _)
TextLinesEnd(lines, i) ==
  IF i <= Len(lines) /\ Len(Trim(lines[i])) > 0 THEN TextLinesEnd(lines, i + 1) ELSE i

\* while (i < lines.length && lines[i].trim() === "") i++
RECURSIVE SkipBlankLines(_, _)
SkipBlankLines(lines, i) ==
  IF i <= Len(lines) /\ Len(Trim(lines[i])) = 0 THEN SkipBlankLines(lines, i + 1) ELSE i

\* the outer loop of parseSrtToBlocks from line i (counted from 1)
RECURSIVE ParseBlocksFrom(_, _)
ParseBlocksFrom(lines, i) ==
  IF i > Len(lines) THEN <<>>
  ELSE LET timeAt == IF IsIndexLine(Trim(lines[i])) THEN i + 1 ELSE i
           line == IF timeAt <= Len(lines) THEN lines[timeAt] ELSE <<>>
           t == FindTimecode(line, 1)
       IN IF t = 0 THEN ParseBlocksFrom(lines, timeAt + 1)
          ELSE LET startMs == hhmmssToMs(ParseDigits(line, t, 2), ParseDigits(line, t + 3, 2),
                                         ParseDigits(line, t + 6, 2), ParseDigits(line, t + 9, 3))
                   textEnd == TextLinesEnd(lines, timeAt + 1)
                   text == cleanSrtText(Join(SubSeq(lines, timeAt + 1, textEnd - 1), <<10>>))
                   rest == ParseBlocksFrom(lines, SkipBlankLines(lines, textEnd))
               IN IF Len(Trim(text)) > 0
                  THEN <<[startMs |-> startMs, text |-> text]>> \o rest
                  ELSE rest

parseSrtToBlocks(srtString) == ParseBlocksFrom(SplitLines(NormalizeNewlines(srtString)), 1)

\* one iteration of the scan loop of parseSrtToBlocks at line i (counted from
\* 1): the cursor after it, the blocks it pushed, and whether it raised
\* (lines[i].trim() on an undefined lines[i] is a TypeError)
ParseIterStaysOnMismatch(lines, i) ==
  IF i > Len(lines) THEN [i |-> i, blocks |-> <<>>, raised |-> TRUE]
  ELSE LET timeAt == IF IsIndexLine(Trim(lines[i])) THEN i + 1 ELSE i
           line == IF timeAt <= Len(lines) THEN lines[timeAt] ELSE <<>>
           t == FindTimecode(line, 1)
       IN IF t = 0 THEN [i |-> timeAt, blocks |-> <<>>, raised |-> FALSE]
          ELSE LET startMs == hhmmssToMs(ParseDigits(line, t, 2), ParseDigits(line, t + 3, 2),
                                         ParseDigits(line, t + 6, 2), ParseDigits(line, t + 9, 3))
                   textEnd == TextLinesEnd(lines, timeAt + 1)
                   text == cleanSrtText(Join(SubSeq(lines, timeAt + 1, textEnd - 1), <<10>>))
               IN [i |-> SkipBlankLines(lines, textEnd),
                   blocks |-> IF Len(Trim(text)) > 0
                              THEN <<[startMs |-> startMs, text |-> text]>>
                              ELSE <<>>,
                   raised |-> FALSE]

ParseIter(lines, i) ==
  IF i > Len(lines) THEN [i |-> i, blocks |-> <<>>, raised |-> TRUE]
  ELSE LET timeAt == IF IsIndexLine(Trim(lines[i])) THEN i + 1 ELSE i
           line == IF timeAt <= Len(lines) THEN lines[timeAt] ELSE <<>>
           t == FindTimecode(line, 1)
       IN IF t = 0 THEN [i |-> timeAt + 1, blocks |-> <<>>, raised |-> FALSE]
          ELSE LET startMs == hhmmssToMs(ParseDigits(line, t, 2), ParseDigits(line, t + 3, 2),
                                         ParseDigits(line, t + 6, 2), ParseDigits(line, t + 9, 3))
                   textEnd == TextLinesEnd(lines, timeAt + 1)
                   text == cleanSrtText(Join(SubSeq(lines, timeAt + 1, textEnd - 1), <<10>>))
               IN [i |-> SkipBlankLines(lines, textEnd),
                   blocks |-> IF Len(Trim(text)) > 0
                              THEN <<[startMs |-> startMs, text |-> text]>>
                              ELSE <<>>,
                   raised |-> FALSE]

\* split(/\n+/): a run of line feeds is one separator
RECURSIVE SkipNewlines(_, _)
SkipNewlines(s, p) == IF p <= Len(s) /\ s[p] = 10 THEN SkipNewlines(s, p + 1) ELSE p

RECURSIVE SplitNewlineRunsFrom(_, _, _)
SplitNewlineRunsFrom(s, p, line) ==
  IF p > Len(s) THEN <<line>>
  ELSE IF s[p] = 10 THEN <<line>> \o SplitNewlineRunsFrom(s, SkipNewlines(s, p), <<>>)
  ELSE SplitNewlineRunsFrom(s, p + 1, Append(line, s[p]))

RECURSIVE TrimAll(_)
TrimAll(parts) == IF Len(parts) = 0 THEN <<>> ELSE <<Trim(parts[1])>> \o TrimAll(Tail(parts))

\* split(/\n+/).map(l => l.trim()).filter(Boolean)
TrimmedLines(s) == SelectSeq(TrimAll(SplitNewlineRunsFrom(s, 1, <<>>)), LAMBDA l : Len(l) > 0)

joinLinesPreservingSentence(s) == Join(TrimmedLines(s), <<32>>)

\* onScreenRegex = /^\s*on[-\s]?screen\s*text\s*:\s*/i on s: the position after the
\* match, or 0
MatchOnScreenPrefix(s) == MatchMarker(s, SkipWs(s, 1))

tagDescriptiveBlock(b) ==
  LET lines == TrimmedLines(b.text)
      first == IF Len(lines) > 0 THEN lines[1] ELSE <<>>
      e == MatchOnScreenPrefix(first)
  IN IF e > 0
     THEN [startMs |-> b.startMs, role |-> "On-screen text",
           text |-> Join(<<Trim(SubSeq(first, e, Len(first)))>> \o Tail(lines), <<32>>)]
     ELSE [startMs |-> b.startMs, role |-> "Description", text |-> Join(lines, <<32>>)]

tagDescriptiveBlocks(blocks) == [n \in 1..Len(blocks) |-> tagDescriptiveBlock(blocks[n])]

tagSpokenBlocks(blocks) ==
  [n \in 1..Len(blocks) |->
     [startMs |-> blocks[n].startMs, role |-> "Speaker",
      text |-> joinLinesPreservingSentence(blocks[n].text)]]

combineTranscripts(spokenSrt, descriptiveSrt) ==
  LET spoken == tagSpokenBlocks(parseSrtToBlocks(spokenSrt))
      desc == tagDescriptiveBlocks(parseSrtToBlocks(descriptiveSrt))
  IN RenderEntries(mergeAdjacentSpeakers(
       dedupeNearDuplicates(SortEntries(spoken \o desc), windowMs)))

----------------------------------------------------------------------------
(* The identifier and the output name *)

LitYtp == <<89, 84, 80, 50, 54, 45>>    \* "YTP26-"

\* two identifiers
IdA == <<89, 84, 80, 50, 54, 45, 48, 48, 49>>          \* "YTP26-001"
IdB == <<89, 84, 80, 50, 54, 45, 48, 48, 49, 97>>      \* "YTP26-001a"

\* /YTP26-(\d{3})([a-zA-Z])?/i at position p
MatchYtp(s, p) ==
  /\ MatchLitCI(s, p, LitYtp)
  /\ p + 8 <= Len(s)
  /\ IsDigit(s[p + 6]) /\ IsDigit(s[p + 7]) /\ IsDigit(s[p + 8])

\* the leftmost position at or after p where the pattern matches, or 0
FindYtp(s, p) ==
  LET found == {q \in p..Len(s) : MatchYtp(s, q)}
  IN IF found = {} THEN 0 ELSE CHOOSE q \in found : \A r \in found : q <= r

\* null is the empty sequence: extractYtpId never returns ""
extractYtpId(s) ==
  IF Len(s) = 0 THEN <<>>
  ELSE LET p == FindYtp(s, 1)
       IN IF p = 0 THEN <<>>
          ELSE LET digits == SubSeq(s, p + 6, p + 8)
                   letter == IF p + 9 <= Len(s) /\ IsAsciiLetter(s[p + 9])
                             THEN <<LowerChar(s[p + 9])>>
                             ELSE <<>>
               IN LitYtp \o digits \o letter

\* "_Descriptive_Transcript.txt"
LitDescriptiveTranscript ==
  <<95, 68, 101, 115, 99, 114, 105, 112, 116, 105, 118, 101, 95, 84, 114, 97, 110,
    115, 99, 114, 105, 112, 116, 46, 116, 120, 116>>

\* `${s.id}_Descriptive_Transcript.txt`
OutputName(id) == id \o LitDescriptiveTranscript

\* "combined_transcript.txt"
LitCombinedTranscript ==
  <<99, 111, 109, 98, 105, 110, 101, 100, 95, 116, 114, 97, 110, 115, 99, 114, 105,
    112, 116, 46, 116, 120, 116>>

\* a || b on the results of extractYtpId
OrElse(a, b) == IF Len(a) > 0 THEN a ELSE b

buildOutputFilename(spokenFilename, spokenContent) ==
  LET id == OrElse(extractYtpId(spokenFilename), extractYtpId(spokenContent))
  IN IF Len(id) > 0 THEN OutputName(id) ELSE LitCombinedTranscript

----------------------------------------------------------------------------
(* Bytes *)

\* TextEncoder.encode: UTF-8 of a string of UTF-16 code units
RECURSIVE Utf8From(_, _)
Utf8From(s, p) ==
  IF p > Len(s) THEN <<>>
  ELSE LET c == s[p]
       IN IF c < 128 THEN <<c>> \o Utf8From(s, p + 1)
          ELSE IF c < 2048
               THEN <<192 + (c \div 64), 128 + (c % 64)>> \o Utf8From(s, p + 1)
          ELSE IF c \in 55296..56319 /\ p < Len(s) /\ s[p + 1] \in 56320..57343
               THEN LET cp == 65536 + (c - 55296) * 1024 + (s[p + 1] - 56320)
                    IN <<240 + (cp \div 262144), 128 + ((cp \div 4096) % 64),
                         128 + ((cp \div 64) % 64), 128 + (cp % 64)>>
                       \o Utf8From(s, p + 2)
          ELSE IF c \in 55296..57343
               THEN <<239, 191, 189>> \o Utf8From(s, p + 1)
          ELSE <<224 + (c \div 4096), 128 + ((c \div 64) % 64), 128 + (c % 64)>>
               \o Utf8From(s, p + 1)

Utf8Encode(s) == Utf8From(s, 1)

\* DataView.setUint16(p, v, true) and setUint32(p, v, true): little-endian, the
\* value taken modulo the field's width
U16LE(v) == <<v % 256, (v \div 256) % 256>>
U32LE(v) == <<v % 256, (v \div 256) % 256, (v \div 65536) % 256, (v \div 16777216) % 256>>

\* a 32-bit value as its two 16-bit halves
Word32(hi16, lo16) == [hi |-> hi16, lo |-> lo16]
Word32LE(w) == U16LE(w.lo) \o U16LE(w.hi)
IsWord32(w) == w.hi \in 0..65535 /\ w.lo \in 0..65535

\* a ^ b on 4-bit values, bit by bit
XorNibble ==
  [a \in 0..15 |-> [b \in 0..15 |->
     ((a + b) % 2) + 2 * (((a \div 2) + (b \div 2)) % 2)
     + 4 * (((a \div 4) + (b \div 4)) % 2) + 8 * (((a \div 8) + (b \div 8)) % 2)]]

\* a ^ b on 16-bit values, nibble by nibble
Xor16(a, b) ==
  XorNibble[a % 16][b % 16]
  + 16 * XorNibble[(a \div 16) % 16][(b \div 16) % 16]
  + 256 * XorNibble[(a \div 256) % 16][(b \div 256) % 16]
  + 4096 * XorNibble[(a \div 4096) % 16][(b \div 4096) % 16]

\* c >>> 1
ShiftRight1(w) == Word32(w.hi \div 2, (w.lo \div 2) + (w.hi % 2) * 32768)

\* c = (c & 1) ? (0xEDB88320 ^ (c >>> 1)) : (c >>> 1)
CrcBit(w) ==
  LET sh == ShiftRight1(w)
  IN IF w.lo % 2 = 1 THEN Word32(Xor16(60856, sh.hi), Xor16(33568, sh.lo)) ELSE sh

\* c ^= buf[i], then the eight rounds
CrcByte(w, b) ==
  CrcBit(CrcBit(CrcBit(CrcBit(CrcBit(CrcBit(CrcBit(CrcBit(
    Word32(w.hi, Xor16(w.lo, b))))))))))

\* for (let i = 0; i < buf.length; i++): c is a 32-bit value at the head of every
\* round (testing it makes TLC evaluate each round before starting the next)
RECURSIVE CrcFrom(_, _, _)
CrcFrom(buf, p, w) ==
  IF p > Len(buf) \/ ~IsWord32(w) THEN w ELSE CrcFrom(buf, p + 1, CrcByte(w, buf[p]))

\* ZipWriter.crc32 without the final complement
crc32NoComplement(buf) == CrcFrom(buf, 1, Word32(65535, 65535))

\* ZipWriter.crc32: c = ~0; ...; return ~c >>> 0
crc32(buf) ==
  LET w == CrcFrom(buf, 1, Word32(65535, 65535))
  IN Word32(65535 - w.hi, 65535 - w.lo)

\* what new Date() can return
Clock ==
  { [year |-> 2026, month |-> 10, date |-> 1, hours |-> 14, minutes |-> 35, seconds |-> 7],
    [year |-> 2026, month |-> 10, date |-> 2, hours |-> 0, minutes |-> 0, seconds |-> 1] }

\* (h << 11) | (m << 5) | ((s / 2) & 0x1f): the three fields do not overlap
dosTime(d) == d.hours * 2048 + d.minutes * 32 + ((d.seconds \div 2) % 32)

\* (((y - 1980) & 0x7f) << 9) | ((month + 1) << 5) | date
dosDate(d) == ((d.year - 1980) % 128) * 512 + (d.month + 1) * 32 + d.date

\* the 30-byte local file header
LocalFileHeader(crc, size, nameLen, modTime, modDate) ==
  U32LE(67324752) \o U16LE(20) \o U16LE(0) \o U16LE(0)
  \o U16LE(modTime) \o U16LE(modDate)
  \o Word32LE(crc) \o U32LE(size) \o U32LE(size)
  \o U16LE(nameLen) \o U16LE(0)

\* the 46-byte central directory header
CentralHeader(crc, size, nameLen, modTime, modDate, localHeaderOffset) ==
  U32LE(33639248) \o U16LE(20) \o U16LE(20) \o U16LE(0) \o U16LE(0)
  \o U16LE(modTime) \o U16LE(modDate)
  \o Word32LE(crc) \o U32LE(size) \o U32LE(size)
  \o U16LE(nameLen) \o U16LE(0) \o U16LE(0) \o U16LE(0) \o U16LE(0)
  \o U32LE(0) \o U32LE(localHeaderOffset)

\* the 22-byte end of central directory record
EndRecord(count, centralSize, centralStart) ==
  U32LE(101010256) \o U16LE(0) \o U16LE(0) \o U16LE(count) \o U16LE(count)
  \o U32LE(centralSize) \o U32LE(centralStart) \o U16LE(0)

\* addFile: const localHeaderOffset = this.offset, read before offset advances
\* by the record's length
LocalHeaderOffsetAfterAdvance(off, recordLen) == off + recordLen
LocalHeaderOffset(off, recordLen) == off

\* the concatenation of the chunks
RECURSIVE Concat(_)
Concat(parts) == IF Len(parts) = 0 THEN <<>> ELSE parts[1] \o Concat(Tail(parts))

----------------------------------------------------------------------------
(* The page: texts the handlers write, and the state the clear handler leaves *)

\* The page itself (index.html) is taken to define every element the script
\* names, copyBtn and output included, so that the script runs to its end and
\* the ZipWriter class is initialised.

\* "Combining..."
LitCombining == <<67, 111, 109, 98, 105, 110, 105, 110, 103, 46, 46, 46>>
\* "No matching pairs by YTP ID."
LitNoMatchingPairs ==
  <<78, 111, 32, 109, 97, 116, 99, 104, 105, 110, 103, 32, 112, 97, 105, 114, 115, 32, 98, 121, 32, 89, 84, 80, 32, 73, 68, 46>>
\* "Ready: 1 file"
LitReadyOneFile == <<82, 101, 97, 100, 121, 58, 32, 49, 32, 102, 105, 108, 101>>
\* "Failed to combine."
LitFailed ==
  <<70, 97, 105, 108, 101, 100, 32, 116, 111, 32, 99, 111, 109, 98, 105, 110, 101, 46>>
\* "Download"
LitDownload == <<68, 111, 119, 110, 108, 111, 97, 100>>

\* String(n) for n >= 0
RECURSIVE DecimalChars(_)
DecimalChars(n) ==
  IF n < 10 THEN <<48 + n>> ELSE DecimalChars(n \div 10) \o <<48 + (n % 10)>>

\* `Download ${name}`
DownloadNameText(name) == <<68, 111, 119, 110, 108, 111, 97, 100, 32>> \o name

\* `Download ${n} files (ZIP)`
DownloadZipText(n) ==
  <<68, 111, 119, 110, 108, 111, 97, 100, 32>> \o DecimalChars(n)
  \o <<32, 102, 105, 108, 101, 115, 32, 40, 90, 73, 80, 41>>

\* `Ready: ${n} files`
ReadyFilesText(n) ==
  <<82, 101, 97, 100, 121, 58, 32>> \o DecimalChars(n) \o <<32, 102, 105, 108, 101, 115>>

\* `Narrava_Combined_${outputs.length}_files.zip`
ZipName(n) ==
  <<78, 97, 114, 114, 97, 118, 97, 95, 67, 111, 109, 98, 105, 110, 101, 100, 95>>
  \o DecimalChars(n) \o <<95, 102, 105, 108, 101, 115, 46, 122, 105, 112>>

NoHref == [kind |-> "none"]
\* URL.createObjectURL(new Blob([content], { type: "text/plain" }))
TextPayload(content) == [kind |-> "text", content |-> content]
\* URL.createObjectURL(await buildZip(files))
ZipPayload(files) == [kind |-> "zip", files |-> files]

Pending == [pending |-> TRUE]

\* no page in this behaviour
OrchIdle ==
  /\ spokenInput = <<>> /\ descInput = <<>> /\ combineDisabled = TRUE
  /\ orchPc = "idle" /\ spokenFiles = <<>> /\ descFiles = <<>>
  /\ spokenEntries = <<>> /\ descEntries = <<>> /\ outputs = <<>> /\ zipArg = <<>>
  /\ statusText = <<>> /\ downloadDisabled = TRUE /\ downloadHref = NoHref
  /\ downloadName = LitCombinedTranscript /\ downloadText = LitDownload

----------------------------------------------------------------------------
(* Inputs of the merge engine: tagged entries of the two tracks *)

TxtHi == <<104, 105>>                  \* "hi"
\* "On-Screen Text: Hi!"
TxtHiMarked ==
  <<79, 110, 45, 83, 99, 114, 101, 101, 110, 32, 84, 101, 120, 116, 58, 32, 72, 105, 33>>
TxtXY == <<120, 32, 32, 121>>          \* "x  y"

Texts == {TxtHi, TxtHiMarked, TxtXY}

Times == {0, 750, 751, 1500}

SpokenEntries == [startMs : Times, role : {"Speaker"}, text : Texts]
DescEntries == [startMs : Times, role : {"Description", "On-screen text"}, text : Texts]

----------------------------------------------------------------------------
(* combineTranscripts, one step per loop iteration *)

MergeIdle ==
  /\ pc = "idle" /\ combined = <<>> /\ result = <<>> /\ dedupeI = 0
  /\ isDuplicate = FALSE /\ dedupeJ = 0 /\ merged = <<>> /\ mergeK = 0 /\ output = <<>>

NormIdle ==
  normPc = "idle" /\ normInput = <<>> /\ normOnce = <<>> /\ normTwice = <<>>

ZipIdle ==
  /\ zipPc = "idle" /\ zipFiles = <<>> /\ zipK = 0 /\ offset = 0
  /\ chunks = <<>> /\ centralDirectory = <<>> /\ zipResult = <<>>

ParseIdle ==
  /\ parsePc = "idle" /\ parseSrt = <<>> /\ parseLines = <<>>
  /\ parseI = 0 /\ parseBlocks = <<>> /\ parseIter = 0

MergeInit ==
  /\ NormIdle /\ ZipIdle /\ OrchIdle /\ ParseIdle
  /\ pc = "sort"
  /\ \E n \in 0..MaxItems : \E m \in 0..n :
       \E s \in SeqsOfLen(SpokenEntries, m), d \in SeqsOfLen(DescEntries, n - m) :
         combined = s \o d
  /\ result = <<>>
  /\ dedupeI = 0
  /\ isDuplicate = FALSE
  /\ dedupeJ = 0
  /\ merged = <<>>
  /\ mergeK = 0
  /\ output = <<>>

Sort ==
  /\ pc = "sort"
  /\ combined' = SortEntries(combined)
  /\ pc' = "dedupe"
  /\ UNCHANGED <<result, dedupeI, isDuplicate, dedupeJ, merged, mergeK, output>>
  /\ UNCHANGED <<normVars, zipVars, orchVars, parseVars>>

DedupeStep ==
  /\ pc = "dedupe"
  /\ dedupeI < Len(combined)
  /\ LET current == combined[dedupeI + 1]
         scan == DedupeScan(result, current, Len(result), windowMs)
     IN /\ result' = DedupeIter(result, current, windowMs)
        /\ isDuplicate' = scan.isDuplicate
        /\ dedupeJ' = scan.j
  /\ dedupeI' = dedupeI + 1
  /\ UNCHANGED <<pc, combined, merged, mergeK, output>>
  /\ UNCHANGED <<normVars, zipVars, orchVars, parseVars>>

DedupeDone ==
  /\ pc = "dedupe"
  /\ dedupeI = Len(combined)
  /\ pc' = "merge"
  /\ UNCHANGED <<combined, result, dedupeI, isDuplicate, dedupeJ, merged, mergeK, output>>
  /\ UNCHANGED <<normVars, zipVars, orchVars, parseVars>>

MergeStep ==
  /\ pc = "merge"
  /\ mergeK < Len(result)
  /\ merged' = MergeIter(merged, result[mergeK + 1])
  /\ mergeK' = mergeK + 1
  /\ UNCHANGED <<pc, combined, result, dedupeI, isDuplicate, dedupeJ, output>>
  /\ UNCHANGED <<normVars, zipVars, orchVars, parseVars>>

Render ==
  /\ pc = "merge"
  /\ mergeK = Len(result)
  /\ output' = RenderEntries(merged)
  /\ pc' = "done"
  /\ UNCHANGED <<combined, result, dedupeI, isDuplicate, dedupeJ, merged, mergeK>>
  /\ UNCHANGED <<normVars, zipVars, orchVars, parseVars>>

MergeNext == Sort \/ DedupeStep \/ DedupeDone \/ MergeStep \/ Render

SpecMerge == MergeInit /\ [][MergeNext]_vars

----------------------------------------------------------------------------
(* cleanSrtText applied to a text, and again to its result *)

\* "<", ">", "{", "}", "a", space, tab, line feed, zero-width space
NormAlphabet == {60, 62, 123, 125, 97, 32, 9, 10, 8203}

NormInit ==
  /\ MergeIdle /\ ZipIdle /\ OrchIdle /\ ParseIdle
  /\ normPc = "input"
  /\ \E n \in 0..MaxTextLen : normInput \in SeqsOfLen(NormAlphabet, n)
  /\ normOnce = <<>>
  /\ normTwice = <<>>

CleanOnce ==
  /\ normPc = "input"
  /\ normOnce' = cleanSrtText(normInput)
  /\ normPc' = "once"
  /\ UNCHANGED <<normInput, normTwice>>
  /\ UNCHANGED <<mergeVars, zipVars, orchVars, parseVars>>

CleanTwice ==
  /\ normPc = "once"
  /\ normTwice' = cleanSrtText(normOnce)
  /\ normPc' = "twice"
  /\ UNCHANGED <<normInput, normOnce>>
  /\ UNCHANGED <<mergeVars, zipVars, orchVars, parseVars>>

NormNext == CleanOnce \/ CleanTwice

SpecNorm == NormInit /\ [][NormNext]_vars

\* C10: cleanSrtText(cleanSrtText(x)) = cleanSrtText(x) for every text x.
C10_Idempotent == normPc = "twice" => normTwice = normOnce

\* a text from which the first pass removed a tag and whitespace and left
\* something, and on which the second pass has run
C10_Witness ==
  /\ normPc = "twice"
  /\ \E p \in 1..Len(normInput) : MatchTag(normInput, p) > 0
  /\ \E p \in 1..Len(normInput) : normInput[p] = 9
  /\ Len(normOnce) > 0 /\ Len(normOnce) < Len(normInput) - 3

----------------------------------------------------------------------------
(* The combine click handler, one step per resumption *)

\* the SRT texts of the selected files
\* "1\n00:00:01,000 --> 00:00:02,000\nhi\n"
SrtSpokenHi ==
  <<49, 10, 48, 48, 58, 48, 48, 58, 48, 49, 44, 48, 48, 48, 32, 45, 45, 62, 32, 48, 48,
    58, 48, 48, 58, 48, 50, 44, 48, 48, 48, 10, 104, 105, 10>>
\* "YTP26-001\n\n1\n00:00:01,000 --> 00:00:02,000\nhi\nthere\n\n2\n00:00:02,500-->00:00:03,000\nok\n"
SrtSpokenWithId ==
  <<89, 84, 80, 50, 54, 45, 48, 48, 49, 10, 10, 49, 10, 48, 48, 58, 48, 48, 58, 48, 49,
    44, 48, 48, 48, 32, 45, 45, 62, 32, 48, 48, 58, 48, 48, 58, 48, 50, 44, 48, 48, 48,
    10, 104, 105, 10, 116, 104, 101, 114, 101, 10, 10, 50, 10, 48, 48, 58, 48, 48, 58,
    48, 50, 44, 53, 48, 48, 45, 45, 62, 48, 48, 58, 48, 48, 58, 48, 51, 44, 48, 48, 48,
    10, 111, 107, 10>>
\* "1\r\n00:00:01,500 --> 00:00:02,000\r\nOn-screen text: Hi!\r\n\r\n2\r\n00:00:03,000 -->
\* 00:00:04,000\r\n<i>door</i>\tslams\r\n"
SrtDescOnScreen ==
  <<49, 13, 10, 48, 48, 58, 48, 48, 58, 48, 49, 44, 53, 48, 48, 32, 45, 45, 62, 32, 48,
    48, 58, 48, 48, 58, 48, 50, 44, 48, 48, 48, 13, 10, 79, 110, 45, 115, 99, 114, 101,
    101, 110, 32, 116, 101, 120, 116, 58, 32, 72, 105, 33, 13, 10, 13, 10, 50, 13, 10,
    48, 48, 58, 48, 48, 58, 48, 51, 44, 48, 48, 48, 32, 45, 45, 62, 32, 48, 48, 58, 48,
    48, 58, 48, 52, 44, 48, 48, 48, 13, 10, 60, 105, 62, 100, 111, 111, 114, 60, 47,
    105, 62, 9, 115, 108, 97, 109, 115, 13, 10>>
\* "ytp26-001a\n00:00:00,500 --> 00:00:01,000\n{\an8}[music]\n"
SrtDescWithId ==
  <<121, 116, 112, 50, 54, 45, 48, 48, 49, 97, 10, 48, 48, 58, 48, 48, 58, 48, 48, 44,
    53, 48, 48, 32, 45, 45, 62, 32, 48, 48, 58, 48, 48, 58, 48, 49, 44, 48, 48, 48, 10,
    123, 92, 97, 110, 56, 125, 91, 109, 117, 115, 105, 99, 93, 10>>

\* what the user can select as standard captions: "YTP26-001.srt" (identifier in
\* the name), "talk.srt" with the identifier in the text, "talk.srt" without
SpokenFilePool ==
  { [name |-> <<89, 84, 80, 50, 54, 45, 48, 48, 49, 46, 115, 114, 116>>, content |-> SrtSpokenHi],
    [name |-> <<116, 97, 108, 107, 46, 115, 114, 116>>, content |-> SrtSpokenWithId],
    [name |-> <<116, 97, 108, 107, 46, 115, 114, 116>>, content |-> SrtSpokenHi] }

\* what the user can select as descriptive captions: "YTP26-001_AD.srt",
\* "Ytp26-001.srt" (whose text names another identifier), "ad.srt" without
DescFilePool ==
  { [name |-> <<89, 84, 80, 50, 54, 45, 48, 48, 49, 95, 65, 68, 46, 115, 114, 116>>,
     content |-> SrtDescOnScreen],
    [name |-> <<89, 116, 112, 50, 54, 45, 48, 48, 49, 46, 115, 114, 116>>, content |-> SrtDescWithId],
    [name |-> <<97, 100, 46, 115, 114, 116>>, content |-> SrtDescOnScreen] }

\* updateButtonState
CombineDisabledFor(spoken, desc) == ~(Len(spoken) > 0 /\ Len(desc) > 0)

\* the page after the user selected files: both change events have run
OrchInit ==
  /\ MergeIdle /\ NormIdle /\ ZipIdle /\ ParseIdle
  /\ \E n \in 0..MaxInputs : spokenInput \in SeqsOfLen(SpokenFilePool, n)
  /\ \E n \in 0..MaxInputs : descInput \in SeqsOfLen(DescFilePool, n)
  /\ combineDisabled = CombineDisabledFor(spokenInput, descInput)
  /\ orchPc = "idle" /\ spokenFiles = <<>> /\ descFiles = <<>>
  /\ spokenEntries = <<>> /\ descEntries = <<>> /\ outputs = <<>> /\ zipArg = <<>>
  /\ statusText = <<>> /\ downloadDisabled = TRUE /\ downloadHref = NoHref
  /\ downloadName = LitCombinedTranscript /\ downloadText = LitDownload

\* the entry one read produces: { id, file, content }
EntryOf(f) ==
  [id |-> OrElse(extractYtpId(f.name), extractYtpId(f.content)), file |-> f,
   content |-> f.content]

AllPending(files) == [n \in 1..Len(files) |-> Pending]

\* Promise.all over files.map(async f => ...): the value the callback of file n
\* returns becomes element n of the result, whenever its read completes
PromiseAllResultInCompletionOrder(entries, n, f) ==
  LET k == CHOOSE m \in 1..Len(entries) :
             entries[m] = Pending /\ \A j \in 1..(m - 1) : entries[j] # Pending
  IN [entries EXCEPT ![k] = EntryOf(f)]
PromiseAllResult(entries, n, f) == [entries EXCEPT ![n] = EntryOf(f)]
NonePending(entries) == \A n \in 1..Len(entries) : entries[n] # Pending

\* the click on combineBtn up to the first await: the spoken reads are issued
CombineClick ==
  /\ orchPc = "idle"
  /\ ~combineDisabled
  /\ statusText' = LitCombining
  /\ spokenFiles' = spokenInput
  /\ descFiles' = descInput
  /\ spokenEntries' = AllPending(spokenInput)
  /\ descEntries' = <<>>
  /\ outputs' = <<>>
  /\ zipArg' = <<>>
  /\ orchPc' = "readSpoken"
  /\ UNCHANGED <<spokenInput, descInput, combineDisabled, downloadDisabled,
                 downloadHref, downloadName, downloadText>>
  /\ UNCHANGED <<mergeVars, normVars, zipVars, parseVars>>

\* one f.text() of a spoken file resolves, in any order
SpokenReadDone ==
  /\ orchPc = "readSpoken"
  /\ \E n \in 1..Len(spokenFiles) :
       /\ spokenEntries[n] = Pending
       /\ spokenEntries' = PromiseAllResult(spokenEntries, n, spokenFiles[n])
  /\ UNCHANGED <<spokenInput, descInput, combineDisabled, orchPc, spokenFiles,
                 descFiles, descEntries, outputs, zipArg, statusText,
                 downloadDisabled, downloadHref, downloadName, downloadText>>
  /\ UNCHANGED <<mergeVars, normVars, zipVars, parseVars>>

\* the first Promise.all resolves: the descriptive reads are issued
DescReadsIssued ==
  /\ orchPc = "readSpoken"
  /\ NonePending(spokenEntries)
  /\ descEntries' = AllPending(descFiles)
  /\ orchPc' = "readDesc"
  /\ UNCHANGED <<spokenInput, descInput, combineDisabled, spokenFiles, descFiles,
                 spokenEntries, outputs, zipArg, statusText, downloadDisabled,
                 downloadHref, downloadName, downloadText>>
  /\ UNCHANGED <<mergeVars, normVars, zipVars, parseVars>>

\* one f.text() of a descriptive file resolves, in any order
DescReadDone ==
  /\ orchPc = "readDesc"
  /\ \E n \in 1..Len(descFiles) :
       /\ descEntries[n] = Pending
       /\ descEntries' = PromiseAllResult(descEntries, n, descFiles[n])
  /\ UNCHANGED <<spokenInput, descInput, combineDisabled, orchPc, spokenFiles,
                 descFiles, spokenEntries, outputs, zipArg, statusText,
                 downloadDisabled, downloadHref, downloadName, downloadText>>
  /\ UNCHANGED <<mergeVars, normVars, zipVars, parseVars>>

\* a pending f.text() rejects: Promise.all rejects, the catch block runs
ReadFailed ==
  /\ \/ orchPc = "readSpoken" /\ ~NonePending(spokenEntries)
     \/ orchPc = "readDesc" /\ ~NonePending(descEntries)
  /\ statusText' = LitFailed
  /\ orchPc' = "idle"
  /\ UNCHANGED <<spokenInput, descInput, combineDisabled, spokenFiles, descFiles,
                 spokenEntries, descEntries, outputs, zipArg, downloadDisabled,
                 downloadHref, downloadName, downloadText>>
  /\ UNCHANGED <<mergeVars, normVars, zipVars, parseVars>>

\* idToDesc: the entries with an id, grouped by id in insertion order
IdToDesc(entries) ==
  [id \in {entries[n].id : n \in {m \in 1..Len(entries) : Len(entries[m].id) > 0}} |->
     SelectSeq(entries, LAMBDA d : d.id = id)]

\* idToDesc.get(s.id) || []
MatchesForFirstOnly(idToDesc, id) ==
  IF id \in DOMAIN idToDesc THEN <<idToDesc[id][1]>> ELSE <<>>
MatchesFor(idToDesc, id) == IF id \in DOMAIN idToDesc THEN idToDesc[id] ELSE <<>>

\* the pairing loop over the spoken entries
RECURSIVE PairOutputs(_, _)
PairOutputs(entries, idToDesc) ==
  IF Len(entries) = 0 THEN <<>>
  ELSE LET s == entries[1]
           matches == IF Len(s.id) = 0 THEN <<>> ELSE MatchesFor(idToDesc, s.id)
       IN [n \in 1..Len(matches) |->
             [name |-> OutputName(s.id),
              content |-> combineTranscripts(s.content, matches[n].content)]]
          \o PairOutputs(Tail(entries), idToDesc)

\* if (outputs.length === 1)
IsSingleOutputLoose(outs) == Len(outs) >= 1
IsSingleOutput(outs) == Len(outs) = 1

\* the second Promise.all resolves: pairing, then none / one file / buildZip
PairAndDecide ==
  /\ orchPc = "readDesc"
  /\ NonePending(descEntries)
  /\ LET outs == PairOutputs(spokenEntries, IdToDesc(descEntries))
     IN /\ outputs' = outs
        /\ IF Len(outs) = 0
           THEN /\ statusText' = LitNoMatchingPairs
                /\ downloadDisabled' = TRUE
                /\ downloadHref' = NoHref
                /\ orchPc' = "idle"
                /\ UNCHANGED <<zipArg, downloadName, downloadText>>
           ELSE IF IsSingleOutput(outs)
           THEN /\ downloadHref' = TextPayload(outs[1].content)
                /\ downloadName' = outs[1].name
                /\ downloadText' = DownloadNameText(outs[1].name)
                /\ downloadDisabled' = FALSE
                /\ statusText' = LitReadyOneFile
                /\ orchPc' = "idle"
                /\ UNCHANGED zipArg
           ELSE /\ zipArg' = outs
                /\ orchPc' = "zip"
                /\ UNCHANGED <<statusText, downloadDisabled, downloadHref,
                               downloadName, downloadText>>
  /\ UNCHANGED <<spokenInput, descInput, combineDisabled, spokenFiles, descFiles,
                 spokenEntries, descEntries>>
  /\ UNCHANGED <<mergeVars, normVars, zipVars, parseVars>>

\* buildZip resolves: the archive is offered
ZipReady ==
  /\ orchPc = "zip"
  /\ downloadHref' = ZipPayload(zipArg)
  /\ downloadName' = ZipName(Len(outputs))
  /\ downloadText' = DownloadZipText(Len(outputs))
  /\ downloadDisabled' = FALSE
  /\ statusText' = ReadyFilesText(Len(outputs))
  /\ orchPc' = "idle"
  /\ UNCHANGED <<spokenInput, descInput, combineDisabled, spokenFiles, descFiles,
                 spokenEntries, descEntries, outputs, zipArg>>
  /\ UNCHANGED <<mergeVars, normVars, zipVars, parseVars>>

\* the click on clearBtn, at any time
Clear ==
  /\ spokenInput' = <<>>
  /\ descInput' = <<>>
  /\ statusText' = <<>>
  /\ downloadDisabled' = TRUE
  /\ downloadHref' = NoHref
  /\ downloadName' = LitCombinedTranscript
  /\ downloadText' = LitDownload
  /\ combineDisabled' = CombineDisabledFor(<<>>, <<>>)
  /\ UNCHANGED <<orchPc, spokenFiles, descFiles, spokenEntries, descEntries,
                 outputs, zipArg>>
  /\ UNCHANGED <<mergeVars, normVars, zipVars, parseVars>>

OrchNext ==
  \/ CombineClick \/ SpokenReadDone \/ DescReadsIssued \/ DescReadDone
  \/ ReadFailed \/ PairAndDecide \/ ZipReady \/ Clear

SpecOrch == OrchInit /\ [][OrchNext]_vars

----------------------------------------------------------------------------
(* Properties of the combine click handler *)

\* the identifier of an input: from its name, else from its content
ResolvedId(f) ==
  LET fromName == extractYtpId(f.name)
  IN IF fromName # <<>> THEN fromName ELSE extractYtpId(f.content)

\* all (spoken index, descriptive index) pairs, spoken-major
AllPairs(ns, nd) == [k \in 1..(ns * nd) |-> <<((k - 1) \div nd) + 1, ((k - 1) % nd) + 1>>]

\* the pairs whose spoken input has an identifier that the descriptive input shares
MatchingPairs ==
  SelectSeq(AllPairs(Len(spokenFiles), Len(descFiles)),
            LAMBDA pr : /\ ResolvedId(spokenFiles[pr[1]]) # <<>>
                        /\ ResolvedId(descFiles[pr[2]]) = ResolvedId(spokenFiles[pr[1]]))

\* the step in which the handler, all reads done, pairs the inputs and decides
DecisionStep == orchPc = "readDesc" /\ NonePending(descEntries) /\ orchPc' # "readDesc"

\* the step in which the archive built for the handler is offered
ArchiveStep == orchPc = "zip" /\ orchPc' # "zip"

OutputDecision(archiveName(_)) ==
  /\ DecisionStep =>
       /\ Len(outputs') = 0 =>
            /\ statusText' = LitNoMatchingPairs
            /\ statusText' # LitFailed
            /\ downloadDisabled'
            /\ downloadHref' = NoHref
            /\ zipArg' = <<>>
            /\ orchPc' = "idle"
       /\ Len(outputs') = 1 =>
            /\ downloadHref' = TextPayload(outputs'[1].content)
            /\ downloadName' = outputs'[1].name
            /\ ~downloadDisabled'
            /\ zipArg' = <<>>
            /\ orchPc' = "idle"
       /\ Len(outputs') > 1 =>
            /\ zipArg' = outputs'
            /\ orchPc' = "zip"
  /\ ArchiveStep =>
       /\ Len(outputs) > 1
       /\ downloadHref' = ZipPayload(outputs)
       /\ downloadName' = archiveName(Len(outputs))
       /\ ~downloadDisabled'

\* "Combined_<count>_files.zip"
ZipNameUnprefixed(n) ==
  <<67, 111, 109, 98, 105, 110, 101, 100, 95>> \o DecimalChars(n)
  \o <<95, 102, 105, 108, 101, 115, 46, 122, 105, 112>>

\* "Narrava_Combined_<count>_files.zip"
NarravaArchiveName(n) ==
  <<78, 97, 114, 114, 97, 118, 97, 95, 67, 111, 109, 98, 105, 110, 101, 100, 95>>
  \o DecimalChars(n) \o <<95, 102, 105, 108, 101, 115, 46, 122, 105, 112>>

\* C8 as claimed: zero outputs: the status reports no matching pairs, no
\* download is offered, and it is not a failure; one output: it is offered as
\* a text payload under its own name and buildZip is not called; several:
\* buildZip is called with all of them and the payload is named
\* "Combined_<count>_files.zip".
C8_OutputDecisionAsClaimed == [][OutputDecision(ZipNameUnprefixed)]_vars

\* C8 as amended: the same, the archive being named
\* "Narrava_Combined_<count>_files.zip".
C8_OutputDecision == [][OutputDecision(NarravaArchiveName)]_vars

\* an archive of several outputs is on offer
C8_Witness ==
  /\ orchPc = "idle"
  /\ downloadHref = ZipPayload(outputs)
  /\ Len(outputs) > 1
  /\ ~downloadDisabled
  /\ statusText = ReadyFilesText(Len(outputs))

\* C9: when one spoken and one descriptive input are combined and the spoken
\* input has no identifier in its name nor in its content, the handler still
\* produces one output, named "combined_transcript.txt".
C9_DefaultName ==
  [][(/\ DecisionStep
      /\ Len(spokenFiles) = 1 /\ Len(descFiles) = 1
      /\ extractYtpId(spokenFiles[1].name) = <<>>
      /\ extractYtpId(spokenFiles[1].content) = <<>>) =>
       /\ Len(outputs') = 1
       /\ outputs'[1].name = LitCombinedTranscript
       /\ downloadName' = LitCombinedTranscript
       /\ ~downloadDisabled']_vars

----------------------------------------------------------------------------
(* buildZip: one addFile per file, then toUint8Array *)

\* "Speaker: hi\n\nDescription: door slams"
ContentHiDoor == combineTranscripts(SrtSpokenHi, SrtDescOnScreen)
\* "Description: é"
ContentDescriptionE == <<68, 101, 115, 99, 114, 105, 112, 116, 105, 111, 110, 58, 32, 233>>

\* the OutputFiles the handler can hand over: named by identifier, holding a
\* rendered transcript (possibly empty)
ZipFilePool ==
  [name : {OutputName(IdA), OutputName(IdB)},
   content : {<<>>, ContentHiDoor, ContentDescriptionE}]

ZipInit ==
  /\ MergeIdle /\ NormIdle /\ OrchIdle /\ ParseIdle
  /\ zipPc = "adding"
  /\ \E n \in 0..MaxFiles : zipFiles \in SeqsOfLen(ZipFilePool, n)
  /\ zipK = 0
  /\ offset = 0
  /\ chunks = <<>>
  /\ centralDirectory = <<>>
  /\ zipResult = <<>>

\* writer.addFile(f.name, encoder.encode(f.content)) for the next file; the two
\* new Date() calls are inputs
AddFile ==
  /\ zipPc = "adding"
  /\ zipK < Len(zipFiles)
  /\ \E timeNow \in Clock, dateNow \in Clock :
       LET f == zipFiles[zipK + 1]
           data == Utf8Encode(f.content)
           nameBytes == Utf8Encode(f.name)
           crc == crc32(data)
           size == Len(data)
           modTime == dosTime(timeNow)
           modDate == dosDate(dateNow)
           localHeader == LocalFileHeader(crc, size, Len(nameBytes), modTime, modDate)
           recordLen == Len(localHeader) + Len(nameBytes) + size
           localHeaderOffset == LocalHeaderOffset(offset, recordLen)
           central == CentralHeader(crc, size, Len(nameBytes), modTime, modDate,
                                    localHeaderOffset)
       IN /\ chunks' = chunks \o <<localHeader, nameBytes, data>>
          /\ offset' = offset + recordLen
          /\ centralDirectory' =
               Append(centralDirectory, [header |-> central, nameBytes |-> nameBytes])
  /\ zipK' = zipK + 1
  /\ UNCHANGED <<zipPc, zipFiles, zipResult>>
  /\ UNCHANGED <<mergeVars, normVars, orchVars, parseVars>>

\* the chunks toUint8Array pushes for the central directory
RECURSIVE CentralChunks(_)
CentralChunks(dir) ==
  IF Len(dir) = 0 THEN <<>>
  ELSE <<dir[1].header, dir[1].nameBytes>> \o CentralChunks(Tail(dir))

RECURSIVE TotalLen(_)
TotalLen(parts) == IF Len(parts) = 0 THEN 0 ELSE Len(parts[1]) + TotalLen(Tail(parts))

\* writer.toUint8Array() after the last file
ToUint8Array ==
  /\ zipPc = "adding"
  /\ zipK = Len(zipFiles)
  /\ LET centralStart == offset
         pushed == CentralChunks(centralDirectory)
         offsetAfter == offset + TotalLen(pushed)
         centralSize == offsetAfter - centralStart
         end == EndRecord(Len(centralDirectory), centralSize, centralStart)
     IN /\ chunks' = chunks \o pushed \o <<end>>
        /\ offset' = offsetAfter
        /\ zipResult' = Concat(chunks \o pushed \o <<end>>)
  /\ zipPc' = "done"
  /\ UNCHANGED <<zipFiles, zipK, centralDirectory>>
  /\ UNCHANGED <<mergeVars, normVars, orchVars, parseVars>>

ZipNext == AddFile \/ ToUint8Array

SpecZip == ZipInit /\ [][ZipNext]_vars

----------------------------------------------------------------------------
(* Properties of the archive *)

\* the little-endian fields of a buffer
U16At(buf, p) == buf[p + 1] + 256 * buf[p + 2]
U32At(buf, p) == buf[p + 1] + 256 * buf[p + 2] + 65536 * buf[p + 3] + 16777216 * buf[p + 4]
BytesAt(buf, p, n) == SubSeq(buf, p + 1, p + n)

\* the byte position at which chunk number c starts in the final buffer
ChunkPos(c) == TotalLen(SubSeq(chunks, 1, c - 1))

\* chunk numbers: three chunks per file, then two per central record, then the end
LocalChunk(n) == 3 * (n - 1) + 1
CentralChunk(n) == 3 * Len(zipFiles) + 2 * (n - 1) + 1
EndChunk == 5 * Len(zipFiles) + 1

\* C5: every offset the writer records is the true byte position: the i-th
\* central record names the position of the i-th local header, the end record
\* names the position of the first central record and the byte size of the
\* central directory (headers and names), and after every addFile the running
\* offset is the total length of the chunks pushed so far.
C5_OffsetsAreTruePositions ==
  /\ zipPc = "adding" => offset = TotalLen(chunks)
  /\ zipPc = "done" =>
       /\ zipResult = Concat(chunks)
       /\ Len(chunks) = EndChunk
       /\ \A n \in 1..Len(zipFiles) :
            /\ U32At(zipResult, ChunkPos(CentralChunk(n)) + 42) = ChunkPos(LocalChunk(n))
            /\ U32At(zipResult, ChunkPos(LocalChunk(n))) = 67324752
            /\ U32At(zipResult, ChunkPos(CentralChunk(n))) = 33639248
       /\ U32At(zipResult, ChunkPos(EndChunk) + 16) = ChunkPos(CentralChunk(1))
       /\ U32At(zipResult, ChunkPos(EndChunk) + 12)
            = TotalLen(SubSeq(chunks, CentralChunk(1), EndChunk - 1))
       /\ U32At(zipResult, ChunkPos(EndChunk)) = 101010256

\* two files packaged: the second local header does not start at 0
C5_Witness ==
  /\ zipPc = "done" /\ Len(zipFiles) = 2
  /\ Len(zipFiles[1].content) > 0
  /\ U32At(zipResult, ChunkPos(CentralChunk(2)) + 42) > 30

\* a reader: the end record is the last 22 bytes (the comment is empty); the
\* central directory is walked from its recorded start, and each record's
\* local header is found at its recorded offset
EndPos(buf) == Len(buf) - 22

RECURSIVE ReadCentral(_, _, _)
ReadCentral(buf, p, left) ==
  IF left = 0 THEN <<>>
  ELSE LET nameLen == U16At(buf, p + 28)
           extraLen == U16At(buf, p + 30)
           commentLen == U16At(buf, p + 32)
           localPos == U32At(buf, p + 42)
           localNameLen == U16At(buf, localPos + 26)
           localExtraLen == U16At(buf, localPos + 28)
           size == U32At(buf, p + 20)
       IN <<[signatureOk |-> /\ U32At(buf, p) = 33639248
                             /\ U32At(buf, localPos) = 67324752,
             method |-> U16At(buf, p + 10),
             name |-> BytesAt(buf, p + 46, nameLen),
             localName |-> BytesAt(buf, localPos + 30, localNameLen),
             crc |-> BytesAt(buf, p + 16, 4),
             localCrc |-> BytesAt(buf, localPos + 14, 4),
             data |-> BytesAt(buf, localPos + 30 + localNameLen + localExtraLen, size)]>>
          \o ReadCentral(buf, p + 46 + nameLen + extraLen + commentLen, left - 1)

ReadArchive(buf) ==
  ReadCentral(buf, U32At(buf, EndPos(buf) + 16), U16At(buf, EndPos(buf) + 10))

\* CRC-32 (ISO 3309, as zlib computes it) of the contents of ZipFilePool, in
\* little-endian bytes
ReferenceCrc(bytes) ==
  CASE bytes = <<>> -> <<0, 0, 0, 0>>
    [] bytes = <<83, 112, 101, 97, 107, 101, 114, 58, 32, 104, 105, 10, 10, 68, 101, 115,
                 99, 114, 105, 112, 116, 105, 111, 110, 58, 32, 100, 111, 111, 114, 32,
                 115, 108, 97, 109, 115>> -> <<39, 217, 151, 73>>
    [] bytes = <<68, 101, 115, 99, 114, 105, 112, 116, 105, 111, 110, 58, 32, 195, 169>> ->
         <<73, 118, 85, 189>>

\* C6: a reader that walks the central directory of the archive buildZip
\* returns and follows each recorded offset finds one entry per packaged file,
\* in order, with the file's exact name and bytes, stored uncompressed, and the
\* CRC-32 stored for the entry is the CRC-32 of the bytes it recovered.
C6_RoundTrip ==
  zipPc = "done" =>
    LET entries == ReadArchive(zipResult)
    IN /\ Len(entries) = Len(zipFiles)
       /\ \A n \in 1..Len(zipFiles) :
            /\ entries[n].signatureOk
            /\ entries[n].method = 0
            /\ entries[n].name = zipFiles[n].name
            /\ entries[n].localName = zipFiles[n].name
            /\ entries[n].data = Utf8Encode(zipFiles[n].content)
            /\ entries[n].crc = ReferenceCrc(entries[n].data)
            /\ entries[n].localCrc = ReferenceCrc(entries[n].data)

\* the list the handler produces when one spoken input matched two descriptive
\* inputs: two files with one name and different contents, one of them not ASCII
C6_Witness ==
  /\ zipPc = "done" /\ Len(zipFiles) = 2
  /\ zipFiles[1].name = zipFiles[2].name
  /\ zipFiles[1].content = ContentHiDoor
  /\ zipFiles[2].content = ContentDescriptionE
  /\ Len(ReadArchive(zipResult)) = 2

----------------------------------------------------------------------------
(* Properties of the merge engine *)

KeyOf(e) == normalizeForCompare(e.text)

InRange(e, items) == \E p \in 1..Len(items) : items[p] = e

\* C1: in the merge engine's output, an entry with a smaller startMs precedes
\* one with a larger startMs, and entries with equal startMs appear in role
\* order Description, On-screen text, Speaker.
C1_OutputOrdered ==
  pc = "done" =>
    \A p, q \in 1..Len(merged) :
      /\ merged[p].startMs < merged[q].startMs => p < q
      /\ (/\ merged[p].startMs = merged[q].startMs
          /\ momentOrderValue(merged[p].role) < momentOrderValue(merged[q].role)) => p < q

RECURSIVE RunEnd(_, _)
RunEnd(items, p) ==
  IF p < Len(items) /\ items[p + 1].role = "Speaker" THEN RunEnd(items, p + 1) ELSE p

PlainJoin(texts) == Join(texts, <<32>>)

CollapsedJoin(texts) ==
  IF Len(texts) = 1 THEN texts[1] ELSE Trim(CollapseWs(Join(texts, <<32>>)))

\* every maximal run of Speaker entries replaced by one entry whose text is the
\* run's texts joined (collapse: with the whitespace of the joined text collapsed)
RECURSIVE ReplaceRuns(_, _, _)
ReplaceRuns(items, p, collapse) ==
  IF p > Len(items) THEN <<>>
  ELSE IF items[p].role = "Speaker"
       THEN LET e == RunEnd(items, p)
                texts == [n \in 1..(e - p + 1) |-> items[p + n - 1].text]
                joined == IF collapse THEN CollapsedJoin(texts) ELSE PlainJoin(texts)
            IN <<[items[p] EXCEPT !.text = joined]>> \o ReplaceRuns(items, e + 1, collapse)
  ELSE <<items[p]>> \o ReplaceRuns(items, p + 1, collapse)

\* C4 as stated: each maximal run of Speaker entries becomes one entry whose
\* text is the run's texts joined by single spaces; the other entries are kept.
C4_RunsJoinedPlain ==
  pc = "done" => merged = ReplaceRuns(result, 1, FALSE)

\* C4 amended: the text of a merged run of two or more Speaker entries is the
\* run's texts joined by single spaces with every whitespace run inside the
\* joined text collapsed to one space and the ends trimmed; a Speaker entry
\* alone keeps its text; no two adjacent entries are both Speaker; every
\* non-Speaker entry is emitted unchanged, in order.
C4_RunsJoinedCollapsed ==
  pc = "done" =>
    /\ merged = ReplaceRuns(result, 1, TRUE)
    /\ \A p \in 1..(Len(merged) - 1) :
         ~(merged[p].role = "Speaker" /\ merged[p + 1].role = "Speaker")
    /\ SelectSeq(merged, LAMBDA e : e.role # "Speaker")
         = SelectSeq(result, LAMBDA e : e.role # "Speaker")

\* two adjacent Speaker entries, the first with a double space inside, merged
\* into one, next to two adjacent Description entries that stay apart
C4_Witness ==
  /\ pc = "done" /\ Len(result) = 3 /\ Len(merged) = 2
  /\ result[1].role = "Speaker" /\ result[2].role = "Speaker"
  /\ result[1].text = TxtXY
  /\ merged[1].text # PlainJoin(<<result[1].text, result[2].text>>)

\* C12: while dedupeNearDuplicates runs on the sorted input, the accumulator is
\* non-decreasing in startMs after every processed candidate (a role-upgrade
\* replacement included), and a backward scan that stopped at an element whose
\* gap exceeds the window has skipped no element whose gap is within the window.
C12_AccumulatorNonDecreasing ==
  (pc = "dedupe" /\ dedupeI > 0) =>
    /\ \A p, q \in 1..Len(result) : p < q => result[p].startMs <= result[q].startMs
    /\ (~isDuplicate /\ dedupeJ >= 1) =>
         \A q \in 1..dedupeJ : combined[dedupeI].startMs - result[q].startMs > windowMs

-----------------------------------------------------------------------------
(* dedupeNearDuplicates on up to MaxDedupItems entries *)

MaxDedupItems == 4

\* The entries combineTranscripts hands to the sort and then to
\* dedupeNearDuplicates: tagged spoken blocks followed by tagged descriptive
\* blocks, here with start times a whole window apart.
DedupInit ==
  /\ NormIdle /\ ZipIdle /\ OrchIdle /\ ParseIdle
  /\ pc = "sort"
  /\ \E n \in 0..MaxDedupItems : \E m \in 0..n :
       \E s \in SeqsOfLen([startMs : {0, windowMs, 2 * windowMs},
                           role : {"Speaker"}, text : {TxtHi, TxtXY}], m),
          d \in SeqsOfLen([startMs : {0, windowMs, 2 * windowMs},
                           role : {"Description", "On-screen text"},
                           text : {TxtHi, TxtXY}], n - m) :
         combined = s \o d
  /\ result = <<>> /\ dedupeI = 0 /\ isDuplicate = FALSE /\ dedupeJ = 0
  /\ merged = <<>> /\ mergeK = 0 /\ output = <<>>

SpecDedup == DedupInit /\ [][MergeNext]_vars

\* C13: the output of dedupeNearDuplicates (window 750) on a sorted input holds
\* no two entries whose normalized comparison keys are equal and whose startMs
\* differ by at most 750.
C13_NoNearDuplicates ==
  pc \in {"merge", "done"} =>
    \A p, q \in 1..Len(result) :
      (p < q /\ KeyOf(result[p]) = KeyOf(result[q])) =>
        \/ result[q].startMs - result[p].startMs > windowMs
        \/ result[p].startMs - result[q].startMs > windowMs

-----------------------------------------------------------------------------
(* parseSrtToBlocks, one step per iteration of the scan loop *)

MaxParseLines == 4

\* "00:00:01,500 --> 00:00:02,000"
LineTimecode ==
  <<48, 48, 58, 48, 48, 58, 48, 49, 44, 53, 48, 48, 32, 45, 45, 62, 32,
    48, 48, 58, 48, 48, 58, 48, 50, 44, 48, 48, 48>>
\* "00:00:01,500 -> 00:00:02,000": the arrow is too short
LineBadArrow ==
  <<48, 48, 58, 48, 48, 58, 48, 49, 44, 53, 48, 48, 32, 45, 62, 32,
    48, 48, 58, 48, 48, 58, 48, 50, 44, 48, 48, 48>>

\* the lines an input is made of: "", "1", "2 ", "hi", a timecode line and a
\* line that only looks like one
ParseLinePool == {<<>>, <<49>>, <<50, 32>>, TxtHi, LineTimecode, LineBadArrow}

\* the caller passes any text: up to MaxParseLines lines, joined by one of the
\* three line terminators
ParseInit ==
  /\ MergeIdle /\ NormIdle /\ ZipIdle /\ OrchIdle
  /\ parsePc = "call"
  /\ \E n \in 0..MaxParseLines : \E ls \in SeqsOfLen(ParseLinePool, n) :
       \E term \in {<<10>>, <<13, 10>>, <<13>>} : parseSrt = Join(ls, term)
  /\ parseLines = <<>> /\ parseI = 0 /\ parseBlocks = <<>> /\ parseIter = 0

\* lines 3-6: split into lines, blocks = [], i = 0
ParseStart ==
  /\ parsePc = "call"
  /\ parseLines' = SplitLines(NormalizeNewlines(parseSrt))
  /\ parseI' = 1
  /\ parseBlocks' = <<>>
  /\ parsePc' = "loop"
  /\ UNCHANGED <<parseSrt, parseIter>>
  /\ UNCHANGED <<mergeVars, normVars, zipVars, orchVars>>

\* one pass through the body of while (i < lines.length); the passes are
\* counted, and the count is followed up to one past the number of lines
ParseIteration ==
  /\ parsePc = "loop" /\ parseI <= Len(parseLines)
  /\ parseIter <= Len(parseLines)
  /\ parseIter' = parseIter + 1
  /\ LET step == ParseIter(parseLines, parseI)
     IN /\ parseI' = step.i
        /\ parseBlocks' = parseBlocks \o step.blocks
        /\ parsePc' = IF step.raised THEN "raised" ELSE "loop"
  /\ UNCHANGED <<parseSrt, parseLines>>
  /\ UNCHANGED <<mergeVars, normVars, zipVars, orchVars>>

\* the loop condition fails: return blocks
ParseReturn ==
  /\ parsePc = "loop" /\ parseI > Len(parseLines)
  /\ parsePc' = "done"
  /\ UNCHANGED <<parseSrt, parseLines, parseI, parseBlocks, parseIter>>
  /\ UNCHANGED <<mergeVars, normVars, zipVars, orchVars>>

ParseNext == ParseStart \/ ParseIteration \/ ParseReturn

SpecParse == ParseInit /\ [][ParseNext]_vars

\* the lines of the input that hold a timecode
TimecodeLines == {k \in 1..Len(parseLines) : FindTimecode(parseLines[k], 1) # 0}

\* the start time the timecode of line k gives
StartMsOfLine(k) ==
  LET line == parseLines[k]
      t == FindTimecode(line, 1)
  IN hhmmssToMs(ParseDigits(line, t, 2), ParseDigits(line, t + 3, 2),
                ParseDigits(line, t + 6, 2), ParseDigits(line, t + 9, 3))

\* C11: for every input text parseSrtToBlocks terminates without raising:
\* every pass through the scan loop advances the line cursor by at least one
\* (also when a digits-only index line is the last line), so the loop makes at
\* most as many passes as there are lines, the cursor ends at most two past
\* the last line, and nothing raises on the way; a line that is not a timecode
\* line yields no block (every block comes from a timecode line); and an input
\* with no timecode line, the empty input included, yields no block.
C11_ParserTerminates ==
  /\ [][(parsePc = "loop" /\ parseIter' = parseIter + 1) => parseI' >= parseI + 1]_vars
  /\ [](parsePc \in {"call", "loop", "done"})
  /\ [](parsePc \in {"loop", "done"} =>
          /\ parseIter <= Len(parseLines)
          /\ parseI <= Len(parseLines) + 2)
  /\ [](parsePc = "done" =>
          /\ parseI > Len(parseLines)
          /\ parseBlocks = parseSrtToBlocks(parseSrt)
          /\ \A b \in 1..Len(parseBlocks) :
               \E k \in TimecodeLines : parseBlocks[b].startMs = StartMsOfLine(k)
          /\ Len(parseBlocks) <= Cardinality(TimecodeLines)
          /\ (TimecodeLines = {} => parseBlocks = <<>>))

\* a digits-only index line was the last line: the cursor went two past it,
\* after a block had been pushed, and the function returned
C11_Witness ==
  /\ parsePc = "done"
  /\ Len(parseLines) >= 1
  /\ IsIndexLine(Trim(parseLines[Len(parseLines)]))
  /\ parseI = Len(parseLines) + 2
  /\ parseBlocks # <<>>

-----------------------------------------------------------------------------
(* Properties of the reads of the combine click handler *)

\* a read of the batch is in flight or still to be issued
Reading == orchPc \in {"readSpoken", "readDesc"}

\* every read of the batch, spoken and descriptive, has been issued
AllReadsIssued ==
  Len(spokenEntries) = Len(spokenFiles) /\ Len(descEntries) = Len(descFiles)

\* the spoken reads are issued together; the descriptive reads are issued
\* together once every spoken read has completed
ReadsIssuedPerTrack ==
  /\ orchPc = "readSpoken" =>
       Len(spokenEntries) = Len(spokenFiles) /\ descEntries = <<>>
  /\ orchPc = "readDesc" => AllReadsIssued /\ NonePending(spokenEntries)

\* the entries the reads give when they complete in input order
EntriesInOrder(files) == [n \in 1..Len(files) |-> EntryOf(files[n])]

\* a step of the running handler that pairs or decides (anything but a read
\* completing, the descriptive reads being issued, or the failure path) has
\* every read completed and yields the outputs of the in-order completion
PairingWaitsForReads ==
  (Reading /\ (outputs' # <<>> \/ (orchPc' \notin {"readSpoken", "readDesc"}
                                    /\ statusText' # LitFailed))) =>
    /\ orchPc = "readDesc"
    /\ AllReadsIssued
    /\ NonePending(spokenEntries) /\ NonePending(descEntries)
    /\ outputs' = PairOutputs(EntriesInOrder(spokenFiles),
                              IdToDesc(EntriesInOrder(descFiles)))

\* C14 as stated: within one combine action the reads of all spoken and
\* descriptive inputs are issued concurrently, no pairing or combination step
\* runs before every read of the batch has completed, and the OutputFile list
\* (names, contents, order) is the same for every completion order.
C14_ReadOrderIndependenceAsClaimed ==
  /\ [](Reading => AllReadsIssued)
  /\ [][PairingWaitsForReads]_vars

\* C14, amended: the spoken reads are issued concurrently, the descriptive
\* reads are issued concurrently after every spoken read has completed, no
\* pairing or combination step runs before every read of the batch has
\* completed, and the OutputFile list (names, contents, order) is the same for
\* every completion order.
C14_ReadOrderIndependence ==
  /\ []ReadsIssuedPerTrack
  /\ [][PairingWaitsForReads]_vars

\* the second descriptive read completed while the first is in flight, every
\* spoken read has completed, both spoken inputs have the identifier both
\* descriptive inputs have, and the inputs of a track differ: the order of the
\* four outputs to come rests on the order of the entries
C14_Witness ==
  /\ orchPc = "readDesc"
  /\ Len(spokenFiles) = 2 /\ Len(descFiles) = 2
  /\ descEntries[1] = Pending /\ descEntries[2] # Pending
  /\ outputs = <<>>
  /\ ResolvedId(spokenFiles[1]) # <<>>
  /\ ResolvedId(spokenFiles[2]) = ResolvedId(spokenFiles[1])
  /\ ResolvedId(descFiles[1]) = ResolvedId(spokenFiles[1])
  /\ ResolvedId(descFiles[2]) = ResolvedId(spokenFiles[1])
  /\ spokenFiles[1].content # spokenFiles[2].content
  /\ descFiles[1].content # descFiles[2].content

====
